---- MODULE Spec2Model ----
(***************************************************************************)
(* Currency converter (src/converter.js): the amount filter, the input     *)
(* validator, the conversion workflow and the error display, as a state    *)
(* machine over AppState and the DOM fields the handlers read and write.   *)
(*                                                                         *)
(* Text the handlers compute on (the amount field, toFixed's output) is a  *)
(* sequence of one-character strings; text that is only displayed is a     *)
(* string.  A number is a record [kind, neg, ds, e]: kind "num" stands for *)
(* (-1)^neg * (the integer the digits ds spell) / 10^e, kind "nan" for     *)
(* NaN, kind "inf" for +/-Infinity.                                        *)
(***************************************************************************)
EXTENDS Integers, Sequences, FiniteSets, TLC

(***************************************************************************)
(* Bounds of the model.                                                    *)
(***************************************************************************)
\* Longest raw text an input event delivers in SpecInput.
MaxLen == 5
\* Rate requests issued in one behaviour.
MaxRequests == 2
\* The longest step of the clock, in ms.
TickMs == 2500

(***************************************************************************)
(* Configuration (CONFIG) and fixed texts.                                 *)
(***************************************************************************)
DEFAULT_FROM_CURRENCY == "USD"
DEFAULT_TO_CURRENCY == "EUR"
ERROR_DISPLAY_DURATION == 5000
DECIMAL_PLACES == 2
RATE_DECIMAL_PLACES == 4
ANIMATION_DELAY == 10

\* AppState.errorTimeout holds null or a timer id; ids are positive, and the
\* code tests the field for truth only.
NoTimer == 0

MsgInitFailed == "Failed to initialize application. Please refresh the page."
MsgLoadFailed == "Unable to load currencies. Please check your internet connection and API key."
MsgConversionFailed == "Conversion failed. Please try again."
MsgEmptyAmount == "Please enter an amount to convert"
MsgInvalidAmount == "Please enter a valid amount greater than 0"
MsgMissingSource == "Please select a source currency"
MsgMissingTarget == "Please select a target currency"
MsgSameCurrency == "Source and target currencies must be different"
MsgUncaught == "An unexpected error occurred. Please refresh the page."
MsgUnhandled == "An unexpected error occurred. Please try again."
ResultPlaceholder == "--"
RatePlaceholder == "Exchange Rate: 1 [SOURCE] = [RATE] [TARGET]"

(***************************************************************************)
(* Characters and text.                                                    *)
(***************************************************************************)
Digits == <<"0", "1", "2", "3", "4", "5", "6", "7", "8", "9">>
DigitChars == {Digits[i] : i \in 1..10}
IsDigit(c) == c \in DigitChars
DigitVal(c) == (CHOOSE i \in 1..10 : Digits[i] = c) - 1
WhiteSpace == {" "}

RECURSIVE Join(_)
\* The string a sequence of characters spells.
Join(s) == IF s = <<>> THEN "" ELSE Head(s) \o Join(Tail(s))

RECURSIVE Flatten(_)
\* Array.prototype.join(''): the parts one after the other.
Flatten(parts) == IF parts = <<>> THEN <<>> ELSE Head(parts) \o Flatten(Tail(parts))

Substring(s, n) == SubSeq(s, 1, IF Len(s) < n THEN Len(s) ELSE n)

RECURSIVE Split(_, _)
\* String.prototype.split(sep): the pieces between separators, at least one.
Split(s, sep) ==
    IF \E i \in 1..Len(s) : s[i] = sep
    THEN LET i == CHOOSE k \in 1..Len(s) : s[k] = sep /\ \A j \in 1..(k - 1) : s[j] # sep
         IN  <<SubSeq(s, 1, i - 1)>> \o Split(SubSeq(s, i + 1, Len(s)), sep)
    ELSE <<s>>

RECURSIVE TrimLeft(_)
TrimLeft(s) == IF s # <<>> /\ Head(s) \in WhiteSpace THEN TrimLeft(Tail(s)) ELSE s

RECURSIVE TrimRight(_)
TrimRight(s) ==
    IF s # <<>> /\ s[Len(s)] \in WhiteSpace THEN TrimRight(SubSeq(s, 1, Len(s) - 1)) ELSE s

\* String.prototype.trim
Trim(s) == TrimRight(TrimLeft(s))

(***************************************************************************)
(* handleAmountInput's filter.                                             *)
(***************************************************************************)
\* value.replace(/[^0-9.]/g, '')
StripNonNumeric(s) == SelectSeq(s, LAMBDA c : IsDigit(c) \/ c = ".")

\* parts.length > 2: keep the first separator only.
CollapseSeparators(value, parts) ==
    IF Len(parts) > 2
    THEN parts[1] \o <<".">> \o Flatten(SubSeq(parts, 2, Len(parts)))
    ELSE value

\* parts[1] && parts[1].length > DECIMAL_PLACES: cut the fraction.
LimitDecimals(value, parts) ==
    IF Len(parts) >= 2 /\ parts[2] # <<>> /\ Len(parts[2]) > DECIMAL_PLACES
    THEN parts[1] \o <<".">> \o Substring(parts[2], DECIMAL_PLACES)
    ELSE value

\* The new field value for the raw text of an input event.
Sanitize(raw) ==
    LET stripped == StripNonNumeric(raw)
        parts == Split(stripped, ".")
    IN  LimitDecimals(CollapseSeparators(stripped, parts), parts)

(***************************************************************************)
(* Numbers: parseFloat, multiplication, toFixed, toLocaleString.           *)
(***************************************************************************)
\* A decimal text of this many integer digits or more is beyond the double
\* range and parses to Infinity (Number.MAX_VALUE is about 1.8 * 10^308; the
\* digits 0 and 1 cannot spell a 309-digit number that large).
MaxDoubleDigits == 310

NaN == [kind |-> "nan", neg |-> FALSE, ds |-> <<>>, e |-> 0]
Infinity == [kind |-> "inf", neg |-> FALSE, ds |-> <<>>, e |-> 0]
Num(neg, ds, e) == [kind |-> "num", neg |-> neg, ds |-> ds, e |-> e]
\* The values a rate variable holds besides a number.
Undefined == [kind |-> "undefined", neg |-> FALSE, ds |-> <<>>, e |-> 0]
Null == [kind |-> "null", neg |-> FALSE, ds |-> <<>>, e |-> 0]
InfinityText == <<"I", "n", "f", "i", "n", "i", "t", "y">>
NaNText == <<"N", "a", "N">>

\* The length of the longest prefix of s whose characters are all in set.
PrefixLen(s, set) ==
    CHOOSE k \in 0..Len(s) :
        /\ \A i \in 1..k : s[i] \in set
        /\ k = Len(s) \/ s[k + 1] \notin set

\* The longest prefix of s made of digits.
DigitPrefix(s) == SubSeq(s, 1, PrefixLen(s, DigitChars))

\* A digit sequence without its leading zeros.
StripZeros(ds) == SubSeq(ds, PrefixLen(ds, {"0"}) + 1, Len(ds))

StartsWith(s, p) == Len(s) >= Len(p) /\ SubSeq(s, 1, Len(p)) = p

\* parseFloat: leading white space, a sign, then the longest decimal literal
\* the text starts with (digits, a point, digits; no exponent over these
\* characters); NaN when there is none.
parseFloat(s) ==
    LET t == TrimLeft(s)
        neg == t # <<>> /\ Head(t) = "-"
        u == IF t # <<>> /\ Head(t) \in {"-", "+"} THEN Tail(t) ELSE t
        int == DigitPrefix(u)
        rest == SubSeq(u, Len(int) + 1, Len(u))
        frac == IF rest # <<>> /\ Head(rest) = "." THEN DigitPrefix(Tail(rest)) ELSE <<>>
    IN  IF StartsWith(u, InfinityText) THEN [Infinity EXCEPT !.neg = neg]
        ELSE IF int = <<>> /\ frac = <<>> THEN NaN
        ELSE IF Len(StripZeros(int)) >= MaxDoubleDigits THEN [Infinity EXCEPT !.neg = neg]
        ELSE Num(neg, StripZeros(int) \o frac, Len(frac))

isNaN(x) == x.kind = "nan"
IsZero(x) == x.kind = "num" /\ \A i \in 1..Len(x.ds) : x.ds[i] = "0"
\* x <= 0 (false for NaN)
LeqZero(x) == \/ IsZero(x)
              \/ x.kind \in {"num", "inf"} /\ x.neg

RECURSIVE Pow10(_)
Pow10(n) == IF n = 0 THEN 1 ELSE 10 * Pow10(n - 1)

RECURSIVE Mantissa(_)
\* The integer a sequence of digits spells.
Mantissa(ds) ==
    IF ds = <<>> THEN 0 ELSE 10 * Mantissa(SubSeq(ds, 1, Len(ds) - 1)) + DigitVal(ds[Len(ds)])

RECURSIVE NatText(_)
\* The decimal digits of a natural number.
NatText(n) == IF n < 10 THEN <<Digits[n + 1]>> ELSE NatText(n \div 10) \o <<Digits[(n % 10) + 1]>>

RECURSIVE ZeroPad(_, _)
ZeroPad(ds, k) == IF Len(ds) >= k THEN ds ELSE ZeroPad(<<"0">> \o ds, k)

\* amount * rate; an undefined rate converts to NaN.
Multiply(x, rate) ==
    IF rate = Undefined \/ x.kind = "nan" THEN NaN
    ELSE IF x.kind = "inf" THEN IF Mantissa(rate.ds) = 0 THEN NaN ELSE Infinity
    ELSE Num(x.neg, NatText(Mantissa(x.ds) * Mantissa(rate.ds)), x.e + rate.e)

\* The integers n with n / 10^k nearest to m / 10^e.  A decimal tie is
\* decided by the binary value of the double, which lies on either side.
RoundScaled(m, e, k) ==
    IF e <= k THEN {m * Pow10(k - e)}
    ELSE LET unit == Pow10(e - k)
             lo == m \div unit
             rem == m % unit
         IN  IF 2 * rem < unit THEN {lo}
             ELSE IF 2 * rem > unit THEN {lo + 1}
             ELSE {lo, lo + 1}

\* The text of n / 10^k with exactly k fraction digits.
FixedText(neg, n, k) ==
    (IF neg THEN <<"-">> ELSE <<>>)
        \o NatText(n \div Pow10(k))
        \o (IF k > 0 THEN <<".">> \o ZeroPad(NatText(n % Pow10(k)), k) ELSE <<>>)

\* Number.prototype.toFixed(k): the texts it can return for x.
toFixed(x, k) ==
    IF x.kind = "nan" THEN {NaNText}
    ELSE IF x.kind = "inf" THEN {(IF x.neg THEN <<"-">> ELSE <<>>) \o InfinityText}
    ELSE {FixedText(x.neg, n, k) : n \in RoundScaled(Mantissa(x.ds), x.e, k)}

\* The one character en-US prints for Infinity.
InfinitySign == <<"(infinity sign)">>

RECURSIVE GroupThousands(_)
\* en-US grouping: a comma before every three integer digits.
GroupThousands(ds) ==
    IF Len(ds) <= 3 THEN ds
    ELSE GroupThousands(SubSeq(ds, 1, Len(ds) - 3)) \o <<",">> \o SubSeq(ds, Len(ds) - 2, Len(ds))

\* toLocaleString('en-US', {minimumFractionDigits: k, maximumFractionDigits: k})
toLocaleString(x, k) ==
    IF x.kind = "nan" THEN NaNText
    ELSE IF x.kind = "inf" THEN (IF x.neg THEN <<"-">> ELSE <<>>) \o InfinitySign
    ELSE LET m == Mantissa(x.ds)
             n == IF x.e <= k THEN m * Pow10(k - x.e)
                  ELSE (m + (Pow10(x.e - k) \div 2)) \div Pow10(x.e - k)
         IN  (IF x.neg THEN <<"-">> ELSE <<>>)
                 \o GroupThousands(NatText(n \div Pow10(k)))
                 \o (IF k > 0 THEN <<".">> \o ZeroPad(NatText(n % Pow10(k)), k) ELSE <<>>)

(***************************************************************************)
(* The remote API, as far as the code reads its answers.                   *)
(***************************************************************************)
\* Currency codes, in the order Array.prototype.sort gives them.
Codes == <<"EUR", "GBP", "USD">>
CodeSet == {Codes[i] : i \in 1..Len(Codes)}

Rate(m, e) == Num(FALSE, NatText(m), e)

\* conversion_rates payloads: one with the default currencies, and one that
\* lacks them.
FullRates == [c \in {"EUR", "USD"} |-> IF c = "EUR" THEN Rate(9, 1) ELSE Rate(1, 0)]
PartialRates == [c \in {"GBP"} |-> Rate(12345, 5)]
RateTables == {FullRates, PartialRates}
NoRates == [c \in {} |-> Rate(1, 0)]

\* What a fetch can come back with: no answer, a non-OK status, a payload
\* whose result is not "success", or a successful payload.
Responses ==
    {[transport |-> FALSE, ok |-> FALSE, result |-> "none", conversion_rates |-> NoRates],
     [transport |-> TRUE, ok |-> FALSE, result |-> "none", conversion_rates |-> NoRates],
     [transport |-> TRUE, ok |-> TRUE, result |-> "error", conversion_rates |-> NoRates]}
    \cup {[transport |-> TRUE, ok |-> TRUE, result |-> "success", conversion_rates |-> t] :
             t \in RateTables}

NoResponse ==
    [transport |-> FALSE, ok |-> FALSE, result |-> "pending", conversion_rates |-> NoRates]

\* FetchRejects without the test of data.result.
FetchRejectsStatusOnly(resp) == ~resp.transport \/ ~resp.ok

\* The promise chain of both fetches up to the payload: rejected on a
\* transport failure, on !response.ok and on data.result !== 'success'.
FetchRejects(resp) == ~resp.transport \/ ~resp.ok \/ resp.result # "success"

\* data.conversion_rates[toCurrency]
Lookup(table, code) == IF code \in DOMAIN table THEN table[code] ELSE Undefined

\* fetchExchangeRate's settled value for a response that does not reject.
fetchExchangeRate(resp, toCurrency) == Lookup(resp.conversion_rates, toCurrency)

(***************************************************************************)
(* State.                                                                  *)
(***************************************************************************)
VARIABLES
    currencies,           \* AppState.currencies
    isLoading,            \* AppState.isLoading
    currentExchangeRate,  \* AppState.currentExchangeRate
    errorTimeout,         \* AppState.errorTimeout
    amountValue,          \* DOM.amount.value
    fromValue,            \* DOM.fromCurrency.value ("" is the placeholder)
    toValue,              \* DOM.toCurrency.value
    fromOptions,          \* the codes offered by DOM.fromCurrency
    toOptions,            \* the codes offered by DOM.toCurrency
    disabled,             \* the disabled flag of the four controls
    btnText,              \* DOM.btnText.textContent
    btnLoaderHidden,      \* DOM.btnLoader has class d-none
    errorText,            \* DOM.errorMessage.textContent
    errorHidden,          \* DOM.errorMessage has class d-none
    resultAmount,         \* DOM.resultAmount.textContent
    exchangeRate,         \* DOM.exchangeRate.textContent
    animation,            \* DOM.resultAmount.style.animation
    focused,              \* the element focus() was last called on
    listeners,            \* setupEventListeners has run
    initState,            \* where initializeApp's promise chain stands
    requests,             \* fetches in flight
    rateRequests,         \* rate requests issued so far
    timers,               \* pending setTimeout timers
    errorShownFor,        \* ms since the last displayError, while it shows
    initErrorShown,       \* displayError was called with MsgInitFailed
    lastOp,               \* the handler that ran last, and how it ended
    lastResponse          \* the response of the fetch that settled last

fieldVars == <<amountValue, fromValue, toValue, fromOptions, toOptions>>
loadingVars == <<isLoading, disabled, btnText, btnLoaderHidden>>
errorVars == <<errorText, errorHidden, errorTimeout, timers, errorShownFor, initErrorShown>>
resultVars == <<resultAmount, exchangeRate, currentExchangeRate, animation>>
vars == <<currencies, isLoading, currentExchangeRate, errorTimeout, amountValue,
          fromValue, toValue, fromOptions, toOptions, disabled, btnText,
          btnLoaderHidden, errorText, errorHidden, resultAmount, exchangeRate,
          animation, focused, listeners, initState, requests, rateRequests,
          timers, errorShownFor, initErrorShown, lastOp, lastResponse>>

Controls == {"convertBtn", "amount", "fromCurrency", "toCurrency"}

Init ==
    /\ currencies = NoRates
    /\ isLoading = FALSE
    /\ currentExchangeRate = Null
    /\ errorTimeout = NoTimer
    /\ amountValue = <<>>
    /\ fromValue = ""
    /\ toValue = ""
    /\ fromOptions = <<>>
    /\ toOptions = <<>>
    /\ disabled = [c \in Controls |-> FALSE]
    /\ btnText = "Convert"
    /\ btnLoaderHidden = TRUE
    /\ errorText = ""
    /\ errorHidden = TRUE
    /\ resultAmount = ResultPlaceholder
    /\ exchangeRate = RatePlaceholder
    /\ animation = ""
    /\ focused = "none"
    /\ listeners = FALSE
    /\ initState = "notStarted"
    /\ requests = {}
    /\ rateRequests = 0
    /\ timers = {}
    /\ errorShownFor = 0
    /\ initErrorShown = FALSE
    /\ lastOp = "load"
    /\ lastResponse = NoResponse

(***************************************************************************)
(* Timers (setTimeout, clearTimeout).                                      *)
(***************************************************************************)
TimerIds(ts) == {t.id : t \in ts}

\* An id no pending timer has and no variable still holds.
FreshTimerId(ts, held) ==
    CHOOSE i \in 1..(Cardinality(ts) + 2) :
        /\ i \notin TimerIds(ts) \cup {held}
        /\ \A j \in 1..(i - 1) : j \in TimerIds(ts) \cup {held}

setTimeout(ts, id, kind, delay) == ts \cup {[id |-> id, kind |-> kind, remaining |-> delay]}
clearTimeout(ts, id) == {t \in ts : t.id # id}

(***************************************************************************)
(* Display functions.  The error display is handled as a record E of the   *)
(* variables in errorVars, so that one handler can call hideError and      *)
(* displayError one after the other.                                       *)
(***************************************************************************)
ErrorNow ==
    [text |-> errorText, hidden |-> errorHidden, timeout |-> errorTimeout,
     timers |-> timers, shownFor |-> errorShownFor, initShown |-> initErrorShown]

SetError(E) ==
    /\ errorText' = E.text
    /\ errorHidden' = E.hidden
    /\ errorTimeout' = E.timeout
    /\ timers' = E.timers
    /\ errorShownFor' = E.shownFor
    /\ initErrorShown' = E.initShown

\* displayError without the clearTimeout of the pending timer.
displayErrorStacking(E, message) ==
    LET id == FreshTimerId(E.timers, NoTimer)
    IN  [E EXCEPT !.text = message,
                  !.hidden = FALSE,
                  !.shownFor = 0,
                  !.initShown = E.initShown \/ message = MsgInitFailed,
                  !.timers = setTimeout(E.timers, id, "error", ERROR_DISPLAY_DURATION),
                  !.timeout = id]

\* hideError that adds the class and leaves the timer pending.
hideErrorClassOnly(E) == [E EXCEPT !.hidden = TRUE, !.shownFor = 0]

hideError(E) ==
    [E EXCEPT !.hidden = TRUE,
              !.shownFor = 0,
              !.timers = IF E.timeout # NoTimer THEN clearTimeout(E.timers, E.timeout)
                         ELSE E.timers,
              !.timeout = NoTimer]

displayError(E, message) ==
    LET cleared == IF E.timeout # NoTimer THEN clearTimeout(E.timers, E.timeout)
                   ELSE E.timers
        id == FreshTimerId(cleared, NoTimer)
    IN  [E EXCEPT !.text = message,
                  !.hidden = FALSE,
                  !.shownFor = 0,
                  !.initShown = E.initShown \/ message = MsgInitFailed,
                  !.timers = setTimeout(cleared, id, "error", ERROR_DISPLAY_DURATION),
                  !.timeout = id]

\* setLoadingState that never disables the amount field.
setLoadingStateAmountEnabled(loading) ==
    /\ isLoading' = loading
    /\ disabled' = [c \in Controls |-> loading /\ c # "amount"]
    /\ btnText' = IF loading THEN "Converting..." ELSE "Convert"
    /\ btnLoaderHidden' = ~loading

\* setLoadingState that never disables the two dropdowns.
setLoadingStateDropdownsEnabled(loading) ==
    /\ isLoading' = loading
    /\ disabled' = [c \in Controls |-> loading /\ c \in {"convertBtn", "amount"}]
    /\ btnText' = IF loading THEN "Converting..." ELSE "Convert"
    /\ btnLoaderHidden' = ~loading

setLoadingState(loading) ==
    /\ isLoading' = loading
    /\ disabled' = [c \in Controls |-> loading]
    /\ btnText' = IF loading THEN "Converting..." ELSE "Convert"
    /\ btnLoaderHidden' = ~loading

\* The text of DOM.exchangeRate after a conversion.
RateDescription(formattedRate, fromCurrency, toCurrency) ==
    "Exchange Rate: 1 " \o fromCurrency \o " = " \o Join(formattedRate) \o " " \o toCurrency

\* resetResults without the call of hideError.
resetResultsKeepError(E) ==
    /\ resultAmount' = ResultPlaceholder
    /\ exchangeRate' = RatePlaceholder
    /\ currentExchangeRate' = Null
    /\ SetError(E)

resetResults(E) ==
    /\ resultAmount' = ResultPlaceholder
    /\ exchangeRate' = RatePlaceholder
    /\ currentExchangeRate' = Null
    /\ SetError(hideError(E))

(***************************************************************************)
(* Validation.                                                             *)
(***************************************************************************)
\* ValidationError with the currency comparison moved before the two
\* selection checks.
ValidationErrorReordered(amountText, fromCurrency, toCurrency) ==
    LET amount == Trim(amountText)
        numAmount == parseFloat(amount)
    IN  IF amount = <<>> THEN "EmptyAmount"
        ELSE IF isNaN(numAmount) \/ LeqZero(numAmount) THEN "InvalidAmount"
        ELSE IF fromCurrency = toCurrency THEN "SameCurrency"
        ELSE IF fromCurrency = "" THEN "MissingSourceCurrency"
        ELSE IF toCurrency = "" THEN "MissingTargetCurrency"
        ELSE "none"

\* The first check of validateInputs that fails, "none" when all pass.
ValidationError(amountText, fromCurrency, toCurrency) ==
    LET amount == Trim(amountText)
        numAmount == parseFloat(amount)
    IN  IF amount = <<>> THEN "EmptyAmount"
        ELSE IF isNaN(numAmount) \/ LeqZero(numAmount) THEN "InvalidAmount"
        ELSE IF fromCurrency = "" THEN "MissingSourceCurrency"
        ELSE IF toCurrency = "" THEN "MissingTargetCurrency"
        ELSE IF fromCurrency = toCurrency THEN "SameCurrency"
        ELSE "none"

\* The message displayError is called with for a failed check.
ValidationMessage(kind) ==
    CASE kind = "EmptyAmount" -> MsgEmptyAmount
      [] kind = "InvalidAmount" -> MsgInvalidAmount
      [] kind = "MissingSourceCurrency" -> MsgMissingSource
      [] kind = "MissingTargetCurrency" -> MsgMissingTarget
      [] kind = "SameCurrency" -> MsgSameCurrency

\* The element focus() is called on for a failed check.
ValidationFocus(kind) ==
    CASE kind \in {"EmptyAmount", "InvalidAmount"} -> "amount"
      [] kind = "MissingSourceCurrency" -> "fromCurrency"
      [] kind \in {"MissingTargetCurrency", "SameCurrency"} -> "toCurrency"

\* validateInputs' return value on the current fields.
validateInputs == ValidationError(amountValue, fromValue, toValue) = "none"

(***************************************************************************)
(* Initialization: initializeApp and loadAvailableCurrencies.              *)
(***************************************************************************)
CatalogRequest == [id |-> 0, kind |-> "catalog", amount |-> NaN, from |-> "USD", to |-> ""]

\* Object.keys(AppState.currencies).sort()
SortedCodes(table) == SelectSeq(Codes, LAMBDA c : c \in DOMAIN table)

\* A rate is truthy unless it is 0.
Truthy(table, code) == code \in DOMAIN table /\ ~IsZero(table[code])

\* The catch of loadAvailableCurrencies, as far as the error display goes.
loadAvailableCurrenciesCatch(E) == displayError(E, MsgLoadFailed)

\* The catch of initializeApp without its message.
initializeAppCatchSilent(E) == E

\* The catch of initializeApp.
initializeAppCatch(E) == displayError(E, MsgInitFailed)

\* initializeApp up to the fetch of loadAvailableCurrencies.
InitializeApp ==
    /\ initState = "notStarted"
    /\ initState' = "loading"
    /\ setLoadingState(TRUE)
    /\ requests' = requests \cup {CatalogRequest}
    /\ lastOp' = "initializeApp"
    /\ UNCHANGED <<currencies, fieldVars, errorVars, resultAmount, exchangeRate,
                   currentExchangeRate, animation, focused, listeners, rateRequests,
                   lastResponse>>

\* The catalog fetch settles: loadAvailableCurrencies' then or catch, then
\* initializeApp's.
CatalogResponse(resp) ==
    /\ CatalogRequest \in requests
    /\ requests' = requests \ {CatalogRequest}
    /\ lastResponse' = resp
    /\ setLoadingState(FALSE)
    /\ IF FetchRejects(resp)
       THEN /\ SetError(initializeAppCatch(loadAvailableCurrenciesCatch(ErrorNow)))
            /\ initState' = "failed"
            /\ lastOp' = "catalogFailed"
            /\ UNCHANGED <<currencies, fieldVars, focused, listeners>>
       ELSE /\ currencies' = resp.conversion_rates
            \* populateCurrencyDropdowns
            /\ fromOptions' = SortedCodes(resp.conversion_rates)
            /\ toOptions' = SortedCodes(resp.conversion_rates)
            \* setupEventListeners
            /\ listeners' = TRUE
            \* setDefaultCurrencies
            /\ fromValue' = IF Truthy(resp.conversion_rates, DEFAULT_FROM_CURRENCY)
                            THEN DEFAULT_FROM_CURRENCY ELSE ""
            /\ toValue' = IF Truthy(resp.conversion_rates, DEFAULT_TO_CURRENCY)
                          THEN DEFAULT_TO_CURRENCY ELSE ""
            /\ focused' = "amount"
            /\ initState' = "ready"
            /\ lastOp' = "catalogLoaded"
            /\ UNCHANGED <<amountValue, errorVars>>
    /\ UNCHANGED <<resultAmount, exchangeRate, currentExchangeRate, animation, rateRequests>>

(***************************************************************************)
(* Event handlers.                                                         *)
(***************************************************************************)
\* handleAmountInput without the call of hideError.
handleAmountInputKeepError(raw) ==
    /\ IF listeners
       THEN /\ amountValue' = Sanitize(raw)
            /\ lastOp' = "input"
       ELSE /\ amountValue' = raw
            /\ lastOp' = "unheard"
    /\ UNCHANGED <<currencies, isLoading, currentExchangeRate, fromValue, toValue,
                   fromOptions, toOptions, disabled, btnText, btnLoaderHidden,
                   resultAmount, exchangeRate, animation, focused, listeners,
                   initState, requests, rateRequests, lastResponse, errorVars>>

\* handleAmountInput for an input event whose raw field text is raw.  With no
\* listener installed the field just holds what was typed.
handleAmountInput(raw) ==
    /\ IF listeners
       THEN /\ amountValue' = Sanitize(raw)
            /\ SetError(hideError(ErrorNow))
            /\ lastOp' = "input"
       ELSE /\ amountValue' = raw
            /\ lastOp' = "unheard"
            /\ UNCHANGED errorVars
    /\ UNCHANGED <<currencies, isLoading, currentExchangeRate, fromValue, toValue,
                   fromOptions, toOptions, disabled, btnText, btnLoaderHidden,
                   resultAmount, exchangeRate, animation, focused, listeners,
                   initState, requests, rateRequests, lastResponse>>

\* handleConversionRequest with setLoadingState(true) called before the
\* validation instead of after it.
handleConversionRequestLoadsFirst ==
    LET E == hideError(ErrorNow)
        kind == ValidationError(amountValue, fromValue, toValue)
    IN  IF kind # "none"
        THEN /\ SetError(displayError(E, ValidationMessage(kind)))
             /\ setLoadingState(TRUE)
             /\ focused' = ValidationFocus(kind)
             /\ lastOp' = "submitRejected"
             /\ UNCHANGED <<currencies, fieldVars, resultAmount, exchangeRate,
                            currentExchangeRate, animation, listeners, initState,
                            requests, rateRequests, lastResponse>>
        ELSE /\ rateRequests < MaxRequests
             /\ SetError(E)
             /\ setLoadingState(TRUE)
             /\ requests' = requests \cup
                    {[id |-> rateRequests + 1, kind |-> "rate",
                      amount |-> parseFloat(amountValue), from |-> fromValue, to |-> toValue]}
             /\ rateRequests' = rateRequests + 1
             /\ lastOp' = "submitAccepted"
             /\ UNCHANGED <<currencies, fieldVars, resultAmount, exchangeRate,
                            currentExchangeRate, animation, focused, listeners, initState,
                            lastResponse>>

\* handleConversionRequest that fetches no rate while a result is displayed.
handleConversionRequestCached ==
    LET E == hideError(ErrorNow)
        kind == ValidationError(amountValue, fromValue, toValue)
    IN  IF kind # "none"
        THEN /\ SetError(displayError(E, ValidationMessage(kind)))
             /\ focused' = ValidationFocus(kind)
             /\ lastOp' = "submitRejected"
             /\ UNCHANGED <<currencies, fieldVars, loadingVars, resultAmount, exchangeRate,
                            currentExchangeRate, animation, listeners, initState,
                            requests, rateRequests, lastResponse>>
        ELSE /\ rateRequests < MaxRequests
             /\ SetError(E)
             /\ IF currentExchangeRate # Null
                THEN UNCHANGED <<loadingVars, requests, rateRequests>>
                ELSE /\ setLoadingState(TRUE)
                     /\ requests' = requests \cup
                            {[id |-> rateRequests + 1, kind |-> "rate",
                              amount |-> parseFloat(amountValue), from |-> fromValue,
                              to |-> toValue]}
                     /\ rateRequests' = rateRequests + 1
             /\ lastOp' = "submitAccepted"
             /\ UNCHANGED <<currencies, fieldVars, resultAmount, exchangeRate,
                            currentExchangeRate, animation, focused, listeners, initState,
                            lastResponse>>

\* handleConversionRequest up to the fetch.
handleConversionRequest ==
    LET E == hideError(ErrorNow)
        kind == ValidationError(amountValue, fromValue, toValue)
    IN  IF kind # "none"
        THEN /\ SetError(displayError(E, ValidationMessage(kind)))
             /\ focused' = ValidationFocus(kind)
             /\ lastOp' = "submitRejected"
             /\ UNCHANGED <<currencies, fieldVars, loadingVars, resultAmount, exchangeRate,
                            currentExchangeRate, animation, listeners, initState,
                            requests, rateRequests, lastResponse>>
        ELSE /\ rateRequests < MaxRequests
             /\ SetError(E)
             /\ setLoadingState(TRUE)
             /\ requests' = requests \cup
                    {[id |-> rateRequests + 1, kind |-> "rate",
                      amount |-> parseFloat(amountValue), from |-> fromValue, to |-> toValue]}
             /\ rateRequests' = rateRequests + 1
             /\ lastOp' = "submitAccepted"
             /\ UNCHANGED <<currencies, fieldVars, resultAmount, exchangeRate,
                            currentExchangeRate, animation, focused, listeners, initState,
                            lastResponse>>

\* A user event on a control with no listener changes nothing.
Unheard ==
    /\ lastOp' = "unheard"
    /\ UNCHANGED <<currencies, isLoading, currentExchangeRate, errorTimeout, amountValue,
                   fromValue, toValue, fromOptions, toOptions, disabled, btnText,
                   btnLoaderHidden, errorText, errorHidden, resultAmount, exchangeRate,
                   animation, focused, listeners, initState, requests, rateRequests,
                   timers, errorShownFor, initErrorShown, lastResponse>>

\* A change event of a dropdown whose value became code: resetResults.
CurrencyChanged ==
    /\ resetResults(ErrorNow)
    /\ lastOp' = "change"
    /\ UNCHANGED <<currencies, isLoading, amountValue, fromOptions, toOptions, disabled,
                   btnText, btnLoaderHidden, animation, focused, listeners, initState,
                   requests, rateRequests, lastResponse>>

\* What the page delivers to the handlers.  With enabledOnly the browser's
\* rule applies that a disabled control receives no user event; without it
\* a handler may be invoked in any state (a dispatched event, a direct call).
ClickConvert(enabledOnly) ==
    /\ enabledOnly => ~disabled["convertBtn"]
    /\ IF listeners THEN handleConversionRequest ELSE Unheard

\* keypress with e.key === 'Enter' on the amount field
PressEnter(enabledOnly) ==
    /\ enabledOnly => ~disabled["amount"]
    /\ IF listeners THEN handleConversionRequest ELSE Unheard

TypeAmount(raw, enabledOnly) ==
    /\ enabledOnly => ~disabled["amount"]
    /\ handleAmountInput(raw)

SelectFrom(code, enabledOnly) ==
    /\ enabledOnly => ~disabled["fromCurrency"]
    /\ listeners
    /\ \E i \in 1..Len(fromOptions) : fromOptions[i] = code
    /\ code # fromValue
    /\ fromValue' = code
    /\ toValue' = toValue
    /\ CurrencyChanged

SelectTo(code, enabledOnly) ==
    /\ enabledOnly => ~disabled["toCurrency"]
    /\ listeners
    /\ \E i \in 1..Len(toOptions) : toOptions[i] = code
    /\ code # toValue
    /\ toValue' = code
    /\ fromValue' = fromValue
    /\ CurrencyChanged

(***************************************************************************)
(* The rate fetch settles: the then and catch of handleConversionRequest.  *)
(***************************************************************************)
\* RateResponse with no catch after the then: an exception of the success
\* handler leaves the loading state set.
RateResponseUncaught(req, resp) ==
    /\ req \in requests
    /\ req.kind = "rate"
    /\ requests' = requests \ {req}
    /\ lastResponse' = resp
    /\ IF FetchRejects(resp)
       THEN /\ SetError(displayError(ErrorNow, MsgConversionFailed))
            /\ setLoadingState(FALSE)
            /\ lastOp' = "rateFailed"
            /\ UNCHANGED resultVars
       ELSE LET rate == fetchExchangeRate(resp, req.to)
            IN  \E convertedAmount \in toFixed(Multiply(req.amount, rate), DECIMAL_PLACES) :
                    /\ resultAmount' =
                           Join(toLocaleString(parseFloat(convertedAmount), DECIMAL_PLACES))
                    /\ IF rate = Undefined
                       THEN /\ lastOp' = "rateThrew"
                            /\ UNCHANGED <<exchangeRate, currentExchangeRate, animation,
                                           errorVars, loadingVars>>
                       ELSE \E formattedRate \in toFixed(rate, RATE_DECIMAL_PLACES) :
                                /\ exchangeRate' = RateDescription(formattedRate, req.from, req.to)
                                /\ currentExchangeRate' = rate
                                /\ animation' = "none"
                                /\ setLoadingState(FALSE)
                                /\ SetError([ErrorNow EXCEPT !.timers =
                                       setTimeout(timers, FreshTimerId(timers, errorTimeout),
                                                  "animation", ANIMATION_DELAY)])
                                /\ lastOp' = "rateDisplayed"
    /\ UNCHANGED <<currencies, fieldVars, focused, listeners, initState, rateRequests>>

RateResponse(req, resp) ==
    /\ req \in requests
    /\ req.kind = "rate"
    /\ requests' = requests \ {req}
    /\ lastResponse' = resp
    /\ setLoadingState(FALSE)
    /\ IF FetchRejects(resp)
       THEN /\ SetError(displayError(ErrorNow, MsgConversionFailed))
            /\ lastOp' = "rateFailed"
            /\ UNCHANGED resultVars
       ELSE LET rate == fetchExchangeRate(resp, req.to)
            IN  \E convertedAmount \in toFixed(Multiply(req.amount, rate), DECIMAL_PLACES) :
                    \* displayConversionResults
                    /\ resultAmount' =
                           Join(toLocaleString(parseFloat(convertedAmount), DECIMAL_PLACES))
                    /\ IF rate = Undefined
                       THEN \* rate.toFixed throws a TypeError: the catch runs
                            /\ SetError(displayError(ErrorNow, MsgConversionFailed))
                            /\ lastOp' = "rateThrew"
                            /\ UNCHANGED <<exchangeRate, currentExchangeRate, animation>>
                       ELSE \E formattedRate \in toFixed(rate, RATE_DECIMAL_PLACES) :
                                /\ exchangeRate' = RateDescription(formattedRate, req.from, req.to)
                                /\ currentExchangeRate' = rate
                                /\ animation' = "none"
                                /\ SetError([ErrorNow EXCEPT !.timers =
                                       setTimeout(timers, FreshTimerId(timers, errorTimeout),
                                                  "animation", ANIMATION_DELAY)])
                                /\ lastOp' = "rateDisplayed"
    /\ UNCHANGED <<currencies, fieldVars, focused, listeners, initState, rateRequests>>

(***************************************************************************)
(* Timers and the global error handlers.                                   *)
(***************************************************************************)
\* The time to the next timer that is due, 0 when none is pending.
MinRemaining ==
    IF timers = {} THEN 0
    ELSE CHOOSE d \in {t.remaining : t \in timers} : \A t \in timers : d <= t.remaining

\* Time passes, up to the next timer that is due.
AdvanceTime(d) ==
    /\ timers # {}
    /\ d > 0
    /\ d <= MinRemaining
    /\ timers' = {[t EXCEPT !.remaining = t.remaining - d] : t \in timers}
    /\ errorShownFor' = IF errorHidden THEN errorShownFor ELSE errorShownFor + d
    /\ UNCHANGED <<lastOp, currencies, fieldVars, loadingVars, errorText, errorHidden, errorTimeout,
                   initErrorShown, resultVars, focused, listeners, initState, requests,
                   rateRequests, lastResponse>>

\* The callback of displayError's timer: hideError.
ErrorTimerFires(t) ==
    /\ t \in timers
    /\ t.kind = "error"
    /\ t.remaining = 0
    /\ SetError(hideError([ErrorNow EXCEPT !.timers = timers \ {t}]))
    /\ lastOp' = "errorTimer"
    /\ UNCHANGED <<currencies, fieldVars, loadingVars, resultVars, focused, listeners,
                   initState, requests, rateRequests, lastResponse>>

\* The callback of displayConversionResults' timer.
AnimationTimerFires(t) ==
    /\ t \in timers
    /\ t.kind = "animation"
    /\ t.remaining = 0
    /\ timers' = timers \ {t}
    /\ animation' = "slideDown 0.3s ease"
    /\ lastOp' = "animationTimer"
    /\ UNCHANGED <<currencies, fieldVars, loadingVars, errorText, errorHidden, errorTimeout,
                   errorShownFor, initErrorShown, resultAmount, exchangeRate,
                   currentExchangeRate, focused, listeners, initState, requests, rateRequests,
                   lastResponse>>

\* window 'error' and 'unhandledrejection': raised by the page, at any time.
GlobalError(message) ==
    /\ SetError(displayError(ErrorNow, message))
    /\ lastOp' = "globalError"
    /\ UNCHANGED <<currencies, fieldVars, loadingVars, resultVars, focused, listeners,
                   initState, requests, rateRequests, lastResponse>>

(***************************************************************************)
(* Specifications.                                                         *)
(***************************************************************************)
\* Raw field texts of the input events of Spec.
TypedTexts == {<<"0">>, <<"1", "0", "0">>}

UserEvent(enabledOnly) ==
    \/ ClickConvert(enabledOnly)
    \/ PressEnter(enabledOnly)
    \/ \E raw \in TypedTexts : TypeAmount(raw, enabledOnly)
    \/ \E code \in CodeSet : SelectFrom(code, enabledOnly)
    \/ \E code \in CodeSet : SelectTo(code, enabledOnly)

Settles ==
    \/ \E resp \in Responses : CatalogResponse(resp)
    \/ \E req \in requests, resp \in Responses : RateResponse(req, resp)

TimerEvent ==
    \/ \E d \in {TickMs, MinRemaining} : AdvanceTime(d)
    \/ \E t \in timers : ErrorTimerFires(t)
    \/ \E t \in timers : AnimationTimerFires(t)

PageError ==
    \/ GlobalError(MsgUncaught)
    \/ GlobalError(MsgUnhandled)

\* Handlers run whenever they are invoked.
Next == InitializeApp \/ UserEvent(FALSE) \/ Settles \/ TimerEvent \/ PageError
Spec == Init /\ [][Next]_vars

\* Handlers run whenever they are invoked, and every fetch settles: its
\* promise resolves or rejects.
SpecFair == Init /\ [][Next]_vars /\ WF_vars(Settles)

\* User events reach enabled controls only.
NextUI == InitializeApp \/ UserEvent(TRUE) \/ Settles \/ TimerEvent \/ PageError
SpecUI == Init /\ [][NextUI]_vars

\* Raw field texts of the input event of SpecInput: every text of at most
\* MaxLen characters over two digits, the separator and a character the
\* filter removes, and one text of digits too long for a double.
RawChars == {"0", "1", ".", "a"}
RawTexts == UNION {[1..n -> RawChars] : n \in 0..MaxLen}
LongText == [i \in 1..MaxDoubleDigits |-> "1"]

\* The first edit of the empty amount field.
FirstEdit == amountValue = <<>> /\ \E raw \in RawTexts \cup {LongText} : TypeAmount(raw, TRUE)

\* The amount filter and the validator on every short text: one edit of the
\* amount field, then selections and submissions.
NextInput ==
    \/ InitializeApp
    \/ \E resp \in Responses : CatalogResponse(resp)
    \/ FirstEdit
    \/ ClickConvert(TRUE)
    \/ PressEnter(TRUE)
    \/ \E code \in CodeSet : SelectFrom(code, TRUE)
    \/ \E code \in CodeSet : SelectTo(code, TRUE)
SpecInput == Init /\ [][NextInput]_vars

(***************************************************************************)
(* Claims.                                                                 *)
(***************************************************************************)
SubmitOps == {"submitRejected", "submitAccepted"}
RateRequestsInFlight == {r \in requests : r.kind = "rate"}
ErrorTimers == {t \in timers : t.kind = "error"}
AllEnabled == \A c \in Controls : ~disabled[c]

\* A text that is a decimal number as a whole: digits with at most one
\* point and at least one digit.
IsDecimalText(t) ==
    /\ t # <<>>
    /\ \A i \in 1..Len(t) : IsDigit(t[i]) \/ t[i] = "."
    /\ Cardinality({i \in 1..Len(t) : t[i] = "."}) <= 1
    /\ \E i \in 1..Len(t) : IsDigit(t[i])

\* A decimal text whose value is positive and within the double range.
IsPositiveFiniteText(t) ==
    /\ IsDecimalText(t)
    /\ \E i \in 1..Len(t) : IsDigit(t[i]) /\ t[i] # "0"
    /\ Len(StripZeros(Split(t, ".")[1])) < MaxDoubleDigits

\* C3: validateInputs returns true exactly when the trimmed amount is a
\* positive finite number and both currencies are selected and distinct.
C3_ValidateExactlyPositiveFinite ==
    lastOp \in SubmitOps =>
        ((lastOp = "submitAccepted") <=>
            /\ IsPositiveFiniteText(Trim(amountValue))
            /\ fromValue # ""
            /\ toValue # ""
            /\ fromValue # toValue)

\* The checks of the validator in their order, each with whether the current
\* fields fail it and the message it shows.
ChecksInOrder ==
    LET amount == Trim(amountValue)
        n == parseFloat(amount)
    IN  << [fails |-> amount = <<>>, message |-> MsgEmptyAmount],
           [fails |-> ~(n.kind \in {"num", "inf"} /\ ~n.neg /\ ~IsZero(n)),
            message |-> MsgInvalidAmount],
           [fails |-> fromValue = "", message |-> MsgMissingSource],
           [fails |-> toValue = "", message |-> MsgMissingTarget],
           [fails |-> fromValue = toValue, message |-> MsgSameCurrency] >>
FailingChecks == {i \in 1..Len(ChecksInOrder) : ChecksInOrder[i].fails}
FirstFailingCheck == CHOOSE i \in FailingChecks : \A j \in FailingChecks : i <= j

\* C4: a submit whose input fails one or more checks displays exactly one
\* message, that of the first failing check in the order EmptyAmount,
\* InvalidAmount, MissingSourceCurrency, MissingTargetCurrency, SameCurrency;
\* a submit is accepted only when no check fails.
C4_FirstFailingCheckReported ==
    /\ lastOp = "submitRejected" =>
           /\ FailingChecks # {}
           /\ ~errorHidden
           /\ errorText = ChecksInOrder[FirstFailingCheck].message
           /\ Cardinality(ErrorTimers) = 1
    /\ lastOp = "submitAccepted" => FailingChecks = {}

\* A rejected submit whose input fails several checks at once.
C4_Witness ==
    /\ lastOp = "submitRejected"
    /\ Cardinality(FailingChecks) >= 3
    /\ FirstFailingCheck = 3

\* Only digits and at most one separator, with at most DECIMAL_PLACES digits
\* after it.
IsFilteredAmount(t) ==
    /\ \A i \in 1..Len(t) : IsDigit(t[i]) \/ t[i] = "."
    /\ Cardinality({i \in 1..Len(t) : t[i] = "."}) <= 1
    /\ \A i \in 1..Len(t) : t[i] = "." => Len(t) - i <= DECIMAL_PLACES

\* C5: after handleAmountInput the field holds only digits and at most one
\* decimal separator, with at most DECIMAL_PLACES digits after it.
C5_FilterOutputWellFormed == lastOp = "input" => IsFilteredAmount(amountValue)

\* The fields of AppState and of the DOM.
uiVars == <<currencies, isLoading, currentExchangeRate, errorTimeout, amountValue,
            fromValue, toValue, fromOptions, toOptions, disabled, btnText,
            btnLoaderHidden, errorText, errorHidden, resultAmount, exchangeRate,
            animation, focused>>

IsFailure(resp) == ~resp.transport \/ ~resp.ok \/ resp.result # "success"

\* This step settles one rate request.
RateSettles ==
    /\ requests' \subseteq requests
    /\ \E r \in requests \ requests' : r.kind = "rate"
SettledRequest == CHOOSE r \in requests \ requests' : r.kind = "rate"

\* C2: when the rate fetch of a conversion fails, the error is shown, the
\* result display is not written for that request, and the workflow is idle
\* again: isLoading false and the four controls enabled.
C2_FailedFetchShowsErrorAndIdles ==
    [][(RateSettles /\ IsFailure(lastResponse')) =>
           /\ ~errorHidden'
           /\ errorText' = MsgConversionFailed
           /\ UNCHANGED resultVars
           /\ Cardinality(requests \ requests') = 1
           /\ ~isLoading'
           /\ \A c \in Controls : ~disabled'[c]]_vars

\* A conversion has just failed on a non-OK status.
C2_Witness ==
    /\ lastOp = "rateFailed"
    /\ lastResponse.transport /\ ~lastResponse.ok
    /\ ~errorHidden /\ errorText = MsgConversionFailed
    /\ ~isLoading /\ AllEnabled

\* C6: at most one error timer is pending, it is the one the last
\* displayError set, and it comes due exactly ERROR_DISPLAY_DURATION after
\* that call; a shown error always has its timer.
C6_OneErrorTimerDueAfterDuration ==
    /\ Cardinality(ErrorTimers) <= 1
    /\ \A t \in ErrorTimers :
           /\ t.id = errorTimeout
           /\ ~errorHidden
           /\ t.remaining + errorShownFor = ERROR_DISPLAY_DURATION
    /\ ~errorHidden => ErrorTimers # {}
    /\ lastOp = "errorTimer" => errorHidden /\ ErrorTimers = {}

\* The error of a failed conversion stayed for the whole duration and was
\* hidden by its timer.
C6_Witness ==
    /\ lastOp = "errorTimer"
    /\ errorText = MsgConversionFailed
    /\ errorHidden
    /\ errorTimeout = NoTimer
    /\ ErrorTimers = {}

\* C7: a change event of either dropdown resets the result display, sets
\* currentExchangeRate to null and clears the error with its timer; it
\* issues no request and leaves isLoading, the catalog and the amount alone.
C7_CurrencyChangeResets ==
    [][(listeners /\ (fromValue' # fromValue \/ toValue' # toValue)) =>
           /\ resultAmount' = ResultPlaceholder
           /\ exchangeRate' = RatePlaceholder
           /\ currentExchangeRate' = Null
           /\ errorHidden'
           /\ errorTimeout' = NoTimer
           /\ {t \in timers' : t.kind = "error"} = {}
           /\ UNCHANGED <<requests, rateRequests, isLoading, currencies, amountValue>>]_vars

\* A selection changed while an earlier result and an error were displayed:
\* both are gone.
C7_Witness ==
    /\ lastOp = "change"
    /\ animation # ""
    /\ errorText = MsgConversionFailed
    /\ errorHidden
    /\ resultAmount = ResultPlaceholder
    /\ currentExchangeRate = Null

\* The texts the claims expect for a settled conversion: the product rounded
\* to DECIMAL_PLACES digits, and the rate with RATE_DECIMAL_PLACES digits.
ExpectedAmountTexts(r, rate) ==
    {Join(toLocaleString(parseFloat(t), DECIMAL_PLACES)) :
        t \in toFixed(Multiply(r.amount, rate), DECIMAL_PLACES)}
ExpectedRateTexts(r, rate) ==
    {RateDescription(t, r.from, r.to) : t \in toFixed(rate, RATE_DECIMAL_PLACES)}

\* C8: a rate fetch that succeeds displays amount * rate rounded to
\* DECIMAL_PLACES digits and the rate description with 4 digits; 100 USD at
\* 0.9 displays "90.00" and "1 USD = 0.9000 EUR".
C8_SuccessDisplaysRoundedProduct ==
    [][(RateSettles /\ ~IsFailure(lastResponse')) =>
           LET r == SettledRequest
               table == lastResponse'.conversion_rates
           IN  /\ r.to \in DOMAIN table
               /\ resultAmount' \in ExpectedAmountTexts(r, table[r.to])
               /\ exchangeRate' \in ExpectedRateTexts(r, table[r.to])
               /\ (r.amount = parseFloat(<<"1", "0", "0">>) /\ table[r.to] = Rate(9, 1)
                   /\ r.from = "USD" /\ r.to = "EUR") =>
                      /\ resultAmount' = "90.00"
                      /\ exchangeRate' = "Exchange Rate: 1 USD = 0.9000 EUR"]_vars

\* C9: a successful response whose conversion_rates lacks toCurrency makes
\* fetchExchangeRate reject: the success handler, which writes the result
\* display, does not run for it.
C9_MissingRateRejects ==
    [][(RateSettles /\ ~IsFailure(lastResponse')
           /\ SettledRequest.to \notin DOMAIN lastResponse'.conversion_rates) =>
           UNCHANGED resultVars]_vars

\* C10: a rate request is issued only after the catalog load succeeded;
\* after a failed load the catalog and both dropdowns are empty, the
\* initialization error has been shown, and no conversion has started.
C10_NoConversionWithoutCatalog ==
    /\ (rateRequests > 0 \/ RateRequestsInFlight # {}) => initState = "ready"
    /\ initState = "failed" =>
           /\ currencies = NoRates
           /\ fromOptions = <<>> /\ toOptions = <<>>
           /\ initErrorShown
           /\ rateRequests = 0 /\ RateRequestsInFlight = {}
           /\ ~isLoading

\* After a failed load the user typed an amount and clicked: nothing heard.
C10_Witness ==
    /\ initState = "failed"
    /\ amountValue = <<"1", "0", "0">>
    /\ lastOp = "unheard"
    /\ errorHidden

\* This step is the passing of time: every pending timer came closer by
\* the same amount.
TimePasses ==
    /\ timers # {}
    /\ \E d \in {TickMs, MinRemaining} :
           /\ d > 0
           /\ timers' = {[u EXCEPT !.remaining = u.remaining - d] : u \in timers}

\* This step is a submit: handleConversionRequest ran.
SubmitStep == lastOp' \in SubmitOps /\ ~TimePasses

ValidationMessages ==
    {MsgEmptyAmount, MsgInvalidAmount, MsgMissingSource, MsgMissingTarget, MsgSameCurrency}

\* C11: a submit whose inputs fail validation issues no request and does
\* not enter Loading: it shows one validation error with one timer, leaves
\* the loading state, the result display and currentExchangeRate unchanged,
\* and from an idle state isLoading stays false and the controls enabled.
C11_RejectedSubmitStaysIdle ==
    [][(SubmitStep /\ ValidationError(amountValue, fromValue, toValue) # "none") =>
           /\ lastOp' = "submitRejected"
           /\ requests' = requests
           /\ rateRequests' = rateRequests
           /\ ~errorHidden'
           /\ errorText' \in ValidationMessages
           /\ Cardinality({t \in timers' : t.kind = "error"}) = 1
           /\ UNCHANGED <<isLoading, disabled, btnText, btnLoaderHidden>>
           /\ UNCHANGED <<resultAmount, exchangeRate, currentExchangeRate>>
           /\ ~isLoading => (~isLoading' /\ \A c \in Controls : ~disabled'[c])]_vars

\* A submit was rejected while an earlier result stays displayed and
\* nothing is loading.
C11_Witness ==
    /\ lastOp = "submitRejected"
    /\ ~isLoading /\ AllEnabled
    /\ requests = {}
    /\ currentExchangeRate # Null
    /\ resultAmount = "90.00"
    /\ ~errorHidden /\ errorText = MsgInvalidAmount

\* C12: with user events delivered to enabled controls only, at most one
\* request is in flight, and while a rate request is in flight isLoading is
\* set and the four controls are disabled.
C12_OneRequestControlsDisabled ==
    /\ Cardinality(requests) <= 1
    /\ Cardinality(RateRequestsInFlight) <= 1
    /\ RateRequestsInFlight # {} => (isLoading /\ \A c \in Controls : disabled[c])

\* The second conversion of a session is in flight.
C12_Witness ==
    /\ rateRequests = 2
    /\ Cardinality(RateRequestsInFlight) = 1
    /\ \A c \in Controls : disabled[c]
    /\ currentExchangeRate # Null

\* C13: provided every fetch settles, each entry into Loading (the catalog
\* load or a conversion) is followed by a state with isLoading false and
\* the four controls enabled, whether the fetch succeeds, fails, or the
\* success handler throws.
C13_LoadingReturnsToIdle ==
    isLoading ~> (~isLoading /\ \A c \in Controls : ~disabled[c])

\* The success handler threw and the workflow is idle again.
C13_Witness ==
    /\ lastOp = "rateThrew"
    /\ resultAmount = "NaN"
    /\ requests = {}
    /\ ~isLoading /\ AllEnabled

\* C14: a submit or an amount input event first hides the displayed error
\* and cancels its timer: after an input event or an accepted submit no
\* error is visible and no error timer is pending, and after a rejected
\* submit the visible error is the message of that submit's own validation
\* with a timer started by it, whatever error was displayed before.
C14_NewActionClearsEarlierError ==
    [][/\ (lastOp' \in {"input", "submitAccepted"} /\ ~TimePasses) =>
              /\ errorHidden'
              /\ errorTimeout' = NoTimer
              /\ {t \in timers' : t.kind = "error"} = {}
       /\ (lastOp' = "submitRejected" /\ ~TimePasses) =>
              /\ ~errorHidden'
              /\ errorText' =
                     ValidationMessage(ValidationError(amountValue, fromValue, toValue))
              /\ \A t \in timers' :
                     t.kind = "error" =>
                         t.id = errorTimeout' /\ t.remaining = ERROR_DISPLAY_DURATION]_vars

\* A result was displayed, a page error was reported and the next submit
\* was accepted, all before any time passed: the submit hid the error.
C14_Witness ==
    /\ lastOp = "submitAccepted"
    /\ errorText = MsgUncaught
    /\ errorHidden
    /\ errorTimeout = NoTimer
    /\ rateRequests = 2
    /\ \E t \in timers : t.kind = "animation" /\ t.remaining = ANIMATION_DELAY

\* The displayed result: the result amount text, the rate description and
\* currentExchangeRate.
displayedResult == <<resultAmount, exchangeRate, currentExchangeRate>>

\* C15: the displayed result changes only in a step that displays the
\* result of a successful conversion or that handles a currency-selection
\* change; rejected submits, failed conversions, amount input and the error
\* timer leave it unchanged.
C15_ResultWrittenOnlyBySuccessOrChange ==
    [][displayedResult' # displayedResult => lastOp' \in {"rateDisplayed", "change"}]_vars

\* C16: a submit that passes validation issues exactly one rate request for
\* the current fields, whether or not a result for the pair is displayed or
\* its rate is in the catalog; no other step issues a rate request, so a
\* failed request is not retried and the count of rate requests issued is
\* the count of accepted submits.
C16_OneRequestPerAcceptedSubmit ==
    [][IF SubmitStep /\ ValidationError(amountValue, fromValue, toValue) = "none"
       THEN /\ lastOp' = "submitAccepted"
            /\ rateRequests' = rateRequests + 1
            /\ \E r \in requests' \ requests :
                   /\ requests' = requests \cup {r}
                   /\ r.kind = "rate"
                   /\ r.from = fromValue /\ r.to = toValue
                   /\ r.amount = parseFloat(amountValue)
       ELSE /\ rateRequests' = rateRequests
            /\ {r \in requests' : r.kind = "rate"} \subseteq requests]_vars

\* A second submit for the pair whose result is displayed, and whose rate
\* the catalog holds, went out as a second request.
C16_Witness ==
    /\ lastOp = "submitAccepted"
    /\ rateRequests = 2
    /\ Cardinality(RateRequestsInFlight) = 1
    /\ exchangeRate = "Exchange Rate: 1 USD = 0.9000 EUR"
    /\ fromValue = "USD" /\ toValue = "EUR"
    /\ toValue \in DOMAIN currencies

\* C17: the error message is visible exactly when AppState.errorTimeout is
\* non-null, and errorTimeout is non-null exactly when the timer it names is
\* pending.
C17_ErrorVisibleIffTimerPending ==
    /\ ~errorHidden <=> errorTimeout # NoTimer
    /\ errorTimeout # NoTimer <=> \E t \in timers : t.kind = "error" /\ t.id = errorTimeout

\* An error was replaced by a second one and that one was hidden by an
\* input event: no error is visible and no timer is left.
C17_Witness ==
    /\ lastOp = "input"
    /\ initState = "ready"
    /\ errorText = MsgUnhandled
    /\ errorHidden
    /\ errorTimeout = NoTimer
    /\ ErrorTimers = {}
    /\ rateRequests = 1

\* C18: currentExchangeRate is non-null exactly when the result display
\* shows something other than the '--' placeholder.
C18_RateSetIffResultShown ==
    (currentExchangeRate # Null) <=> (resultAmount # ResultPlaceholder)

\* C19: the amount filter is idempotent: the text an input event left in
\* the field is a fixed point of the filter.
C19_FilterIdempotent == lastOp = "input" => Sanitize(amountValue) = amountValue

\* The rate descriptions of a result for the selected pair.
SelectedPairDescriptions ==
    {RateDescription(t, fromValue, toValue) :
        t \in toFixed(currentExchangeRate, RATE_DECIMAL_PLACES)}

\* C20: with user events delivered to enabled controls only, a displayed
\* rate description names the selected source and target currencies, and
\* while a rate request is in flight it is a request for the selected pair.
C20_ResultIsForSelectedPair ==
    /\ exchangeRate # RatePlaceholder =>
           /\ currentExchangeRate # Null
           /\ exchangeRate \in SelectedPairDescriptions
    /\ currentExchangeRate # Null => exchangeRate \in SelectedPairDescriptions
    /\ \A r \in RateRequestsInFlight : r.from = fromValue /\ r.to = toValue

\* After a selection change reset an earlier result, the result of a
\* conversion for the changed pair is displayed.
C20_Witness ==
    /\ lastOp = "rateDisplayed"
    /\ rateRequests = 2
    /\ fromValue = "EUR" /\ toValue = "USD"
    /\ exchangeRate = "Exchange Rate: 1 EUR = 1.0000 USD"
    /\ resultAmount = "100.00"

====
